---- MODULE Spec2Model ----
(***************************************************************************)
(* MogoliBOT (src/mogolibot.py): a Telegram bot that keeps, per chat, a    *)
(* ledger of "chromosome" balances, daily given/received counters, the     *)
(* users chosen each day and a registry of immune users, in one SQLite     *)
(* database.  The model keeps the four tables as variables, has one action *)
(* per handler step (a handler is cut where it awaits a reply and later    *)
(* touches the database again) and one per timer event.                    *)
(*                                                                         *)
(* Time is kept at date resolution.  That loses nothing the program reads: *)
(* today_key() is the UTC date, the reset job is scheduled at 00:00 UTC,   *)
(* and the only timestamp comparison (get_recent_users) is a comparison of *)
(* TEXT values whose first difference is the date or, for equal dates, the *)
(* separator that follows it (see TextGE).                                 *)
(*                                                                         *)
(* The immune table is modelled with the columns and the key init_db       *)
(* declares for it: one row per (chat_id, user_id, username).  SQLite      *)
(* rejects that declaration (expressions in a PRIMARY KEY), so init_db     *)
(* gets through only where the table already exists; the model starts from *)
(* a database that has the four tables, all empty.                         *)
(***************************************************************************)
EXTENDS Integers, FiniteSets, Sequences, TLC

\* ------------------------------------------------------------ constants
RECENT_DAYS_WINDOW == 7
DAILY_START_BALANCE == 75
ALERT_THRESHOLD == 21
\* the owner's Telegram id, read from the environment (default 5285094498);
\* here a non-zero id that belongs to none of the chats' users
OWNER_ID == 9
IMMUNE_USERS == {}

\* ------------------------------------------------------------ bounds
MaxEvents == 2     \* updates, renames and clock steps in one run

\* ------------------------------------------------------------ input alphabets
Chats == {1, 2}
Users == {1, 2, 3}
Members(c) == IF c = 1 THEN {1, 2, 3} ELSE {1, 2}   \* who takes part in a chat
NULL == "<NULL>"                      \* SQL NULL / Python None
NoId == 0                             \* "no user id" (None; falsy like 0)
Names == {"alice", "Alice", "bruno"}  \* usernames ([A-Za-z0-9_]{5,})
UNames == Names \cup {NULL}
NoAmount == -1                        \* the text holds no number
Amounts == {NoAmount, 0, 11, 21, 76}
NoChat == 0                           \* no chat id
NoReply == [id |-> NoId, username |-> NULL]   \* update is not a reply

\* str.lower() / SQL LOWER() on the usernames of the alphabet
Lower(s) == IF s = "Alice" THEN "alice" ELSE s

\* Python's (x or "") and SQL's COALESCE(x, '')
OrEmpty(s) == IF s = NULL THEN "" ELSE s

VARIABLES
    today,            \* now_utc().date(), counted in days since start
    resetDue,         \* the daily_reset job is due and has not run yet
    tg_username,      \* each Telegram user's current username (environment)
    users,            \* table users: <<chat, user>> -> row
    daily_stats,      \* table daily_stats: <<chat, user, day>> -> row
    daily_selection,  \* table daily_selection: set of <<chat, day, user>>
    immune,           \* table immune: set of <<chat, user_id, username>>
    h,                \* the handler suspended at an await, if any
    out,              \* reply sent by the latest handler step
    nev,              \* number of events (updates, renames, clock steps) so far
    calls             \* calls under way outside the sequential handler: call -> its state

vars == <<today, resetDue, tg_username, users, daily_stats, daily_selection,
          immune, h, out, nev, calls>>

\* ------------------------------------------------------------ helpers
\* today_key that takes the date of a clock ahead of UTC, past its midnight
today_key_ahead == today + 1

today_key == today

\* sqlite3's default adapter stores a datetime as isoformat(" "); the cutoff
\* is passed as isoformat(), which separates date and time with "T".  Both
\* are TEXT in the comparison, modelled as <<date, separator>>.
AdaptDatetime(d) == <<d, " ">>
IsoFormat(d) == <<d, "T">>
SepCode(s) == IF s = " " THEN 32 ELSE 84
\* a >= b on such texts: the dates decide, then the separators; the time of
\* day is reached only when both are equal, which never is the case here.
TextGE(a, b) == a[1] > b[1] \/ (a[1] = b[1] /\ SepCode(a[2]) >= SepCode(b[2]))

\* upsert_user whose ON CONFLICT clause also writes the starting balance
upsert_user_refill(U, c, u, name, t) ==
    (<<c, u>> :> [username |-> name, last_seen |-> t,
                  balance |-> DAILY_START_BALANCE]) @@ U

upsert_user(U, c, u, name, t) ==
    IF <<c, u>> \in DOMAIN U
    THEN [U EXCEPT ![<<c, u>>] = [@ EXCEPT !.username = name, !.last_seen = t]]
    ELSE (<<c, u>> :> [username |-> name, last_seen |-> t,
                       balance |-> DAILY_START_BALANCE]) @@ U

seen_user(U, c, u, name, t) == upsert_user(U, c, u, name, t)

\* is_user_immune comparing the stored username as it is, without LOWER()
is_user_immune_exact(I, c, uid, uname) ==
    LET uname_lc == Lower(OrEmpty(uname)) IN
    \/ uname_lc \in IMMUNE_USERS
    \/ uid # NoId /\ \E e \in I : e[1] = c /\ e[2] = uid
    \/ uname_lc # "" /\ \E e \in I : e[1] = c /\ e[3] # NULL /\ e[3] = uname_lc

\* is_user_immune that forgets the chat_id of the entries
is_user_immune_any_chat(I, c, uid, uname) ==
    LET uname_lc == Lower(OrEmpty(uname)) IN
    \/ uname_lc \in IMMUNE_USERS
    \/ uid # NoId /\ \E e \in I : e[2] = uid
    \/ uname_lc # "" /\ \E e \in I : e[3] # NULL /\ Lower(e[3]) = uname_lc

\* is_user_immune without the lookup by username
is_user_immune_id_only(I, c, uid, uname) ==
    LET uname_lc == Lower(OrEmpty(uname)) IN
    \/ uname_lc \in IMMUNE_USERS
    \/ uid # NoId /\ \E e \in I : e[1] = c /\ e[2] = uid

is_user_immune(I, c, uid, uname) ==
    LET uname_lc == Lower(OrEmpty(uname)) IN
    \/ uname_lc \in IMMUNE_USERS
    \/ uid # NoId /\ \E e \in I : e[1] = c /\ e[2] = uid
    \/ uname_lc # "" /\ \E e \in I : e[1] = c /\ e[3] # NULL /\ Lower(e[3]) = uname_lc

add_immune(I, c, uid, uname) == I \cup {<<c, uid, uname>>}

\* rows DELETEd by remove_immune
removed_rows(I, c, uid, uname) ==
    LET uname_lc == Lower(OrEmpty(uname)) IN
    IF uid # NoId THEN {e \in I : e[1] = c /\ e[2] = uid}
    ELSE IF uname_lc # ""
         THEN {e \in I : e[1] = c /\ e[3] # NULL /\ Lower(e[3]) = uname_lc}
         ELSE {}

remove_immune(I, c, uid, uname) ==
    [count |-> Cardinality(removed_rows(I, c, uid, uname)),
     immune |-> I \ removed_rows(I, c, uid, uname)]

list_immunes(I, c) == {<<e[2], OrEmpty(e[3])>> : e \in {x \in I : x[1] = c}}

\* get_recent_users without the loop that drops the immune users
get_recent_users_unfiltered(U, I, c, t) ==
    LET cutoff == t - RECENT_DAYS_WINDOW IN
    {<<k[2], OrEmpty(U[k].username)>> :
        k \in {r \in DOMAIN U :
                  /\ r[1] = c
                  /\ TextGE(AdaptDatetime(U[r].last_seen), IsoFormat(cutoff))}}

\* the (user_id, username) pairs of the pool, as a set
get_recent_users(U, I, c, t) ==
    LET cutoff == t - RECENT_DAYS_WINDOW
        rows == {k \in DOMAIN U :
                    /\ k[1] = c
                    /\ TextGE(AdaptDatetime(U[k].last_seen), IsoFormat(cutoff))}
    IN {<<k[2], OrEmpty(U[k].username)>> :
            k \in {r \in rows : ~is_user_immune(I, c, r[2], OrEmpty(U[r].username))}}

ensure_stats_row(S, c, u, day) ==
    IF <<c, u, day>> \in DOMAIN S THEN S
    ELSE (<<c, u, day>> :> [given |-> 0, received |-> 0]) @@ S

\* adjust_balance with the sign of delta turned round
adjust_balance_sign(U, c, u, delta) ==
    IF <<c, u>> \notin DOMAIN U
    THEN [ok |-> FALSE, bal |-> 0, users |-> U]
    ELSE LET bal == U[<<c, u>>].balance
             new_bal == bal - delta
         IN IF new_bal < 0
            THEN [ok |-> FALSE, bal |-> bal, users |-> U]
            ELSE [ok |-> TRUE, bal |-> new_bal,
                  users |-> [U EXCEPT ![<<c, u>>].balance = new_bal]]

\* adjust_balance without the test of the new balance
adjust_balance_unchecked(U, c, u, delta) ==
    IF <<c, u>> \notin DOMAIN U
    THEN [ok |-> FALSE, bal |-> 0, users |-> U]
    ELSE [ok |-> TRUE, bal |-> U[<<c, u>>].balance + delta,
          users |-> [U EXCEPT ![<<c, u>>].balance = @ + delta]]

\* adjust_balance that empties the balance when it refuses the debit
adjust_balance_clamped(U, c, u, delta) ==
    IF <<c, u>> \notin DOMAIN U
    THEN [ok |-> FALSE, bal |-> 0, users |-> U]
    ELSE IF U[<<c, u>>].balance + delta < 0
         THEN [ok |-> FALSE, bal |-> 0,
               users |-> [U EXCEPT ![<<c, u>>].balance = 0]]
         ELSE [ok |-> TRUE, bal |-> U[<<c, u>>].balance + delta,
               users |-> [U EXCEPT ![<<c, u>>].balance = @ + delta]]

\* adjust_balance that takes the starting balance for the balance of the row
adjust_balance_from_start(U, c, u, delta) ==
    IF <<c, u>> \notin DOMAIN U
    THEN [ok |-> FALSE, bal |-> 0, users |-> U]
    ELSE LET bal == DAILY_START_BALANCE
             new_bal == bal + delta
         IN IF new_bal < 0
            THEN [ok |-> FALSE, bal |-> bal, users |-> U]
            ELSE [ok |-> TRUE, bal |-> new_bal,
                  users |-> [U EXCEPT ![<<c, u>>].balance = new_bal]]

adjust_balance(U, c, u, delta) ==
    IF <<c, u>> \notin DOMAIN U
    THEN [ok |-> FALSE, bal |-> 0, users |-> U]
    ELSE LET bal == U[<<c, u>>].balance
             new_bal == bal + delta
         IN IF new_bal < 0
            THEN [ok |-> FALSE, bal |-> bal, users |-> U]
            ELSE [ok |-> TRUE, bal |-> new_bal,
                  users |-> [U EXCEPT ![<<c, u>>].balance = new_bal]]

\* add_given_received whose UPDATEs set the counters to the amount
add_given_received_overwrite(S, c, giver, recipient, amount, day) ==
    LET S1 == ensure_stats_row(ensure_stats_row(S, c, giver, day), c, recipient, day)
        S2 == [S1 EXCEPT ![<<c, giver, day>>].given = amount]
    IN [S2 EXCEPT ![<<c, recipient, day>>].received = amount]

\* add_given_received that misses the UPDATE of the recipient's row
add_given_only(S, c, giver, recipient, amount, day) ==
    LET S1 == ensure_stats_row(ensure_stats_row(S, c, giver, day), c, recipient, day)
    IN [S1 EXCEPT ![<<c, giver, day>>].given = @ + amount]

add_given_received(S, c, giver, recipient, amount, day) ==
    LET S1 == ensure_stats_row(ensure_stats_row(S, c, giver, day), c, recipient, day)
        S2 == [S1 EXCEPT ![<<c, giver, day>>].given = @ + amount]
    IN [S2 EXCEPT ![<<c, recipient, day>>].received = @ + amount]

get_received_today(S, c, u, day) ==
    IF <<c, u, day>> \in DOMAIN S THEN S[<<c, u, day>>].received ELSE 0

\* mark_selection_today that binds user_id and day to each other's column
mark_selection_today_swapped(Sel, c, u, day) == Sel \cup {<<c, u, day>>}

mark_selection_today(Sel, c, u, day) == Sel \cup {<<c, day, u>>}

\* (rec, sel) of list_today_highlights: rec as the set of <<user, received>>
\* rows the first query returns, sel as the set of users of the second
highlights_rec(U, S, c, day) ==
    {<<k[2], S[k].received>> :
        k \in {x \in DOMAIN S : /\ x[1] = c /\ x[3] = day
                                /\ <<x[1], x[2]>> \in DOMAIN U
                                /\ S[x].received > ALERT_THRESHOLD}}

highlights_sel(U, Sel, c, day) ==
    {e[3] : e \in {x \in Sel : x[1] = c /\ x[2] = day /\ <<x[1], x[3]>> \in DOMAIN U}}

\* ORDER BY received DESC: the rows of R in every order the clause allows
\* (rows with equal received come in any order)
OrderByReceivedDesc(R) ==
    {q \in [1..Cardinality(R) -> R] :
        /\ \A i, j \in 1..Cardinality(R) : i # j => q[i] # q[j]
        /\ \A i, j \in 1..Cardinality(R) : i < j => q[i][2] >= q[j][2]}

\* list_today_highlights with >= in the WHERE clause of the first query
list_today_highlights_ge(U, S, Sel, c, day) ==
    LET R == {<<k[2], S[k].received>> :
                 k \in {x \in DOMAIN S : /\ x[1] = c /\ x[3] = day
                                         /\ <<x[1], x[2]>> \in DOMAIN U
                                         /\ S[x].received >= ALERT_THRESHOLD}}
    IN [rec : OrderByReceivedDesc(R), sel : {highlights_sel(U, Sel, c, day)}]

\* the pairs (rec, sel) list_today_highlights can return: rec a list of
\* <<user_id, received>>, sel the users of the second query (one row each,
\* daily_selection having one row per chat, day and user)
list_today_highlights(U, S, Sel, c, day) ==
    [rec : OrderByReceivedDesc(highlights_rec(U, S, c, day)),
     sel : {highlights_sel(U, Sel, c, day)}]

\* resolve_target_from_update that creates the row of an id it does not find
resolve_target_from_update_upsert(U, c, upd, t) ==
    LET byName == IF upd.mention = NULL THEN {}
                  ELSE {k \in DOMAIN U : /\ k[1] = c
                                         /\ U[k].username # NULL
                                         /\ Lower(U[k].username) = Lower(upd.mention)}
        byId == IF upd.idtok = NoId THEN {}
                ELSE {k \in DOMAIN U : k[1] = c /\ k[2] = upd.idtok}
        hit(k) == [found |-> TRUE, id |-> k[2], uname |-> OrEmpty(U[k].username),
                   users |-> U]
    IN IF upd.reply # NoReply
       THEN {[found |-> TRUE, id |-> upd.reply.id,
              uname |-> OrEmpty(upd.reply.username),
              users |-> seen_user(U, c, upd.reply.id, upd.reply.username, t)]}
       ELSE IF byName # {} THEN {hit(k) : k \in byName}
       ELSE IF byId # {} THEN {hit(k) : k \in byId}
       ELSE {[found |-> FALSE, id |-> NoId, uname |-> "",
              users |-> IF upd.idtok = NoId THEN U
                        ELSE seen_user(U, c, upd.idtok, NULL, t)]}

\* The results resolve_target_from_update can return, each with the users
\* table it leaves: a reply observes the replied-to user; a mention or an id
\* is looked up (fetchone() takes any one of the matching rows).
resolve_target_from_update(U, c, upd, t) ==
    LET byName == IF upd.mention = NULL THEN {}
                  ELSE {k \in DOMAIN U : /\ k[1] = c
                                         /\ U[k].username # NULL
                                         /\ Lower(U[k].username) = Lower(upd.mention)}
        byId == IF upd.idtok = NoId THEN {}
                ELSE {k \in DOMAIN U : k[1] = c /\ k[2] = upd.idtok}
        hit(k) == [found |-> TRUE, id |-> k[2], uname |-> OrEmpty(U[k].username),
                   users |-> U]
    IN IF upd.reply # NoReply
       THEN {[found |-> TRUE, id |-> upd.reply.id,
              uname |-> OrEmpty(upd.reply.username),
              users |-> seen_user(U, c, upd.reply.id, upd.reply.username, t)]}
       ELSE IF byName # {} THEN {hit(k) : k \in byName}
       ELSE IF byId # {} THEN {hit(k) : k \in byId}
       ELSE {[found |-> FALSE, id |-> NoId, uname |-> "", users |-> U]}

\* the threshold test with > for >=
threshold_exceeded(n) == n > ALERT_THRESHOLD

\* the test of a day's total against the alert threshold (lines 402, 434)
threshold_reached(n) == n >= ALERT_THRESHOLD

\* the bounce without the UPDATE that takes the amount from the recipient
bounce_no_debit(S, c, dest, alt, amount, day) ==
    [S EXCEPT ![<<c, alt, day>>].received = @ + amount]

\* the bounce whose first UPDATE takes all the recipient has received
bounce_clear(S, c, dest, alt, amount, day) ==
    LET S1 == [S EXCEPT ![<<c, dest, day>>].received = 0]
    IN [S1 EXCEPT ![<<c, alt, day>>].received = @ + amount]

\* the two UPDATEs of the bounce (one transaction)
bounce(S, c, dest, alt, amount, day) ==
    LET S1 == [S EXCEPT ![<<c, dest, day>>].received =
                            IF @ >= amount THEN @ - amount ELSE 0]
    IN [S1 EXCEPT ![<<c, alt, day>>].received = @ + amount]

_only_private(ctype) == ctype = "private"

\* _is_owner that lets everybody in
_is_owner_anyone(user_id) == TRUE

_is_owner(user_id) == OWNER_ID = 0 \/ user_id = OWNER_ID

\* the reset that adds the starting balance to what is left
do_reset_add(U) ==
    [k \in DOMAIN U |-> [U[k] EXCEPT !.balance = @ + DAILY_START_BALANCE]]

\* the reset UPDATE with a WHERE clause that keeps it to one chat
do_reset_one_chat(U) ==
    [k \in DOMAIN U |-> IF k[1] = 1 THEN [U[k] EXCEPT !.balance = DAILY_START_BALANCE]
                                   ELSE U[k]]

\* the reset UPDATE with a WHERE clause that refills only who ran out
do_reset_if_empty(U) ==
    [k \in DOMAIN U |-> IF U[k].balance = 0 THEN [U[k] EXCEPT !.balance = DAILY_START_BALANCE]
                                            ELSE U[k]]

do_reset(U) == [k \in DOMAIN U |-> [U[k] EXCEPT !.balance = DAILY_START_BALANCE]]

\* ------------------------------------------------------------ inputs
\* what an update says about its target: the replied-to user, the first
\* @mention of the text, the last number of six or more digits
ReplyTo(u) == [id |-> u, username |-> tg_username[u]]
Targets(c) ==
    {[reply |-> ReplyTo(u), mention |-> NULL, idtok |-> NoId] : u \in Members(c)}
    \cup [reply : {NoReply}, mention : UNames, idtok : {NoId}]
    \cup [reply : {NoReply}, mention : {NULL, "Alice"}, idtok : Members(c)]
ImmTargets ==
    {[reply |-> ReplyTo(u), mention |-> NULL, idtok |-> NoId] : u \in Users}
    \cup [reply : {NoReply}, mention : UNames, idtok : {NoId}]
ChatTokens == Chats \cup {NoChat}
\* who calls an immunity command, and where: the owner in private, the
\* owner in a group, somebody else in private
ImmCallers == {[ctype |-> "private", id |-> OWNER_ID],
               [ctype |-> "group", id |-> OWNER_ID],
               [ctype |-> "private", id |-> 2]}

Idle == [pc |-> "idle", chat |-> 0, dest |-> NoId, dest_uname |-> "",
         amount |-> 0, day |-> 0, who |-> NoId]
\* a reply: its kind, the chat it goes to, the user and the number it names
Reply(kind, chat, who, n) ==
    [kind |-> kind, chat |-> chat, who |-> who, n |-> n, rec |-> <<>>, sel |-> {}]
NoOut == Reply("none", NoChat, NoId, 0)

\* ------------------------------------------------------------ initial state
Init ==
    /\ today = 0
    /\ resetDue = FALSE
    /\ tg_username = (1 :> "alice") @@ (2 :> "bruno") @@ (3 :> NULL)
    /\ users = <<>>
    /\ daily_stats = <<>>
    /\ daily_selection = {}
    /\ immune = {}
    /\ h = Idle
    /\ out = NoOut
    /\ nev = 0
    /\ calls = <<>>

\* ------------------------------------------------------------ environment
\* midnight UTC: the date changes and the daily_reset job becomes due
Tick ==
    /\ nev < MaxEvents
    /\ ~resetDue
    /\ today' = today + 1
    /\ resetDue' = TRUE
    /\ nev' = nev + 1
    /\ UNCHANGED <<tg_username, users, daily_stats, daily_selection, immune, h, out, calls>>

\* RECENT_DAYS_WINDOW midnights with no update in between: the job ran after
\* each of them but the last, for which it is due
QuietWeek ==
    /\ nev < MaxEvents
    /\ ~resetDue
    /\ h = Idle
    /\ today' = today + RECENT_DAYS_WINDOW
    /\ users' = do_reset(users)
    /\ resetDue' = TRUE
    /\ nev' = nev + 1
    /\ UNCHANGED <<tg_username, daily_stats, daily_selection, immune, h, out, calls>>

\* a user changes username; Telegram keeps usernames unique ignoring case
Rename(u, n) ==
    /\ nev < MaxEvents
    /\ n # tg_username[u]
    /\ n # NULL => \A v \in Users \ {u} :
                      tg_username[v] = NULL \/ Lower(tg_username[v]) # Lower(n)
    /\ tg_username' = [tg_username EXCEPT ![u] = n]
    /\ nev' = nev + 1
    /\ UNCHANGED <<today, resetDue, users, daily_stats, daily_selection, immune, h, out, calls>>

\* ------------------------------------------------------------ timer job
do_daily_reset ==
    /\ resetDue
    /\ users' = do_reset(users)
    /\ resetDue' = FALSE
    /\ UNCHANGED <<today, tg_username, daily_stats, daily_selection, immune, h, out, nev, calls>>

\* ------------------------------------------------------------ handlers
\* an update is taken only when no handler is in flight
CanStart == h = Idle /\ nev < MaxEvents

\* seen_member / any_group_msg
any_group_msg(c, u) ==
    /\ CanStart
    /\ users' = seen_user(users, c, u, tg_username[u], today)
    /\ out' = NoOut
    /\ nev' = nev + 1
    /\ UNCHANGED <<today, resetDue, tg_username, daily_stats, daily_selection, immune, h, calls>>

\* down, up to its reply
down(c, s) ==
    /\ CanStart
    /\ LET U1 == seen_user(users, c, s, tg_username[s], today)
           candidates == get_recent_users(U1, immune, c, today)
       IN /\ users' = U1
          /\ IF candidates = {}
             THEN /\ out' = Reply("no_active", c, NoId, 0)
                  /\ h' = Idle
             ELSE \E cand \in candidates :
                  /\ out' = Reply("down", c, cand[1], 0)
                  /\ h' = [Idle EXCEPT !.pc = "down_mark", !.chat = c, !.who = cand[1]]
    /\ nev' = nev + 1
    /\ UNCHANGED <<today, resetDue, tg_username, daily_stats, daily_selection, immune, calls>>

\* down, after its reply: mark_selection_today(chat.id, uid, today_key())
down_mark ==
    /\ h.pc = "down_mark"
    /\ daily_selection' = mark_selection_today(daily_selection, h.chat, h.who, today_key)
    /\ h' = Idle
    /\ UNCHANGED <<today, resetDue, tg_username, users, daily_stats, immune, out, nev, calls>>

\* regalar, up to the reply that confirms the gift (lines 358-398)
regalar(c, s, upd, amount) ==
    /\ CanStart
    /\ nev' = nev + 1
    /\ LET U1 == seen_user(users, c, s, tg_username[s], today) IN
       \E target \in resolve_target_from_update(U1, c, upd, today) :
       LET U2 == target.users
           adj == adjust_balance(U2, c, s, 0 - amount)
           day == today_key
       IN IF ~target.found \/ amount = NoAmount \/ amount <= 0
          THEN /\ users' = U2
               /\ out' = Reply("usage", c, NoId, 0)
               /\ h' = Idle
               /\ UNCHANGED daily_stats
          ELSE IF target.id = s
          THEN /\ users' = U2
               /\ out' = Reply("self", c, NoId, 0)
               /\ h' = Idle
               /\ UNCHANGED daily_stats
          ELSE IF ~adj.ok
          THEN /\ users' = adj.users
               /\ out' = Reply("insufficient", c, s,
                               IF <<c, s>> \in DOMAIN adj.users
                               THEN adj.users[<<c, s>>].balance ELSE 0)
               /\ h' = Idle
               /\ UNCHANGED daily_stats
          ELSE /\ users' = adj.users
               /\ daily_stats' =
                      add_given_received(
                          ensure_stats_row(ensure_stats_row(daily_stats, c, s, day),
                                           c, target.id, day),
                          c, s, target.id, amount, day)
               /\ out' = Reply("regalado", c, target.id, adj.bal)
               /\ h' = [pc |-> "regalar_check", chat |-> c, dest |-> target.id,
                        dest_uname |-> target.uname, amount |-> amount,
                        day |-> day, who |-> s]
    /\ UNCHANGED <<today, resetDue, tg_username, daily_selection, immune, calls>>

\* regalar, from the threshold test to the replies that follow it
\* (lines 401-438 and 441): the bounce happens here
regalar_check ==
    /\ h.pc = "regalar_check"
    /\ LET c == h.chat
           total_rec == get_received_today(daily_stats, c, h.dest, h.day)
           candidates == {cand \in get_recent_users(users, immune, c, today) :
                             cand[1] # h.dest}
       IN IF ~threshold_reached(total_rec)
          THEN /\ h' = Idle
               /\ UNCHANGED <<daily_stats, out>>
          ELSE IF ~is_user_immune(immune, c, h.dest, OrEmpty(h.dest_uname))
          THEN /\ out' = Reply("mogolico", c, h.dest, total_rec)
               /\ h' = [h EXCEPT !.pc = "regalar_mark", !.who = h.dest]
               /\ UNCHANGED daily_stats
          ELSE IF candidates = {}
          THEN /\ out' = Reply("no_bounce", c, h.dest, total_rec)
               /\ h' = Idle
               /\ UNCHANGED daily_stats
          ELSE \E alt \in candidates :
               LET S1 == bounce(ensure_stats_row(daily_stats, c, alt[1], h.day),
                                c, h.dest, alt[1], h.amount, h.day)
                   alt_total == get_received_today(S1, c, alt[1], h.day)
               IN /\ daily_stats' = S1
                  /\ IF threshold_reached(alt_total)
                     THEN /\ out' = Reply("bounce_mogolico", c, alt[1], alt_total)
                          /\ h' = [h EXCEPT !.pc = "regalar_mark", !.who = alt[1]]
                     ELSE /\ out' = Reply("bounce", c, alt[1], alt_total)
                          /\ h' = Idle
    /\ UNCHANGED <<today, resetDue, tg_username, users, daily_selection, immune, nev, calls>>

\* regalar, after the announcement: mark_selection_today (lines 439, 445)
regalar_mark ==
    /\ h.pc = "regalar_mark"
    /\ daily_selection' = mark_selection_today(daily_selection, h.chat, h.who, h.day)
    /\ h' = Idle
    /\ UNCHANGED <<today, resetDue, tg_username, users, daily_stats, immune, out, nev, calls>>

\* check_cmd: the list of the day, read and sent; it writes nothing
check_cmd(c) ==
    /\ CanStart
    /\ nev' = nev + 1
    /\ \E res \in list_today_highlights(users, daily_stats, daily_selection, c, today_key) :
          out' = IF res.rec = <<>> /\ res.sel = {}
                 THEN Reply("sin_destacados", c, NoId, 0)
                 ELSE [Reply("lista", c, NoId, 0) EXCEPT !.rec = res.rec, !.sel = res.sel]
    /\ UNCHANGED <<today, resetDue, tg_username, users, daily_stats, daily_selection,
                   immune, h, calls>>

\* randomdown, up to its reply; eleccion is random.choice([0, 1])
randomdown(c, upd, eleccion) ==
    /\ CanStart
    /\ nev' = nev + 1
    /\ \E target \in resolve_target_from_update(users, c, upd, today) :
          /\ users' = target.users
          /\ IF ~target.found
             THEN /\ out' = Reply("usage", c, NoId, 0)
                  /\ h' = Idle
             ELSE IF eleccion = 0
             THEN /\ out' = Reply("randomdown_on", c, target.id, 0)
                  /\ h' = [Idle EXCEPT !.pc = "randomdown_mark", !.chat = c,
                                       !.who = target.id]
             ELSE /\ out' = Reply("randomdown_safe", c, target.id, 0)
                  /\ h' = Idle
    /\ UNCHANGED <<today, resetDue, tg_username, daily_stats, daily_selection, immune, calls>>

\* randomdown, after its reply: mark_selection_today(chat.id, target_id, today_key())
randomdown_mark ==
    /\ h.pc = "randomdown_mark"
    /\ daily_selection' = mark_selection_today(daily_selection, h.chat, h.who, today_key)
    /\ h' = Idle
    /\ UNCHANGED <<today, resetDue, tg_username, users, daily_stats, immune, out, nev, calls>>

\* the target an immunity command reads: the replied-to user (id and
\* username), else the mentioned username alone
imm_target(upd) ==
    IF upd.reply # NoReply THEN [id |-> upd.reply.id, username |-> upd.reply.username]
    ELSE [id |-> NoId, username |-> upd.mention]

imm_usage(chat_tok, tgt) ==
    chat_tok = NoChat \/ ~(tgt.id # NoId \/ OrEmpty(tgt.username) # "")

immune_add(ctype, caller, upd, chat_tok) ==
    /\ CanStart
    /\ nev' = nev + 1
    /\ LET tgt == imm_target(upd) IN
       IF ~_only_private(ctype)
       THEN out' = NoOut /\ UNCHANGED immune
       ELSE IF ~_is_owner(caller)
       THEN out' = Reply("no_autorizado", caller, NoId, 0) /\ UNCHANGED immune
       ELSE IF imm_usage(chat_tok, tgt)
       THEN out' = Reply("usage", caller, NoId, 0) /\ UNCHANGED immune
       ELSE /\ immune' = add_immune(immune, chat_tok, tgt.id, tgt.username)
            /\ out' = Reply("immune_added", caller, tgt.id, chat_tok)
    /\ UNCHANGED <<today, resetDue, tg_username, users, daily_stats, daily_selection, h, calls>>

immune_remove(ctype, caller, upd, chat_tok) ==
    /\ CanStart
    /\ nev' = nev + 1
    /\ LET tgt == imm_target(upd)
           res == remove_immune(immune, chat_tok, tgt.id, tgt.username)
       IN
       IF ~_only_private(ctype)
       THEN out' = NoOut /\ UNCHANGED immune
       ELSE IF ~_is_owner(caller)
       THEN out' = Reply("no_autorizado", caller, NoId, 0) /\ UNCHANGED immune
       ELSE IF imm_usage(chat_tok, tgt)
       THEN out' = Reply("usage", caller, NoId, 0) /\ UNCHANGED immune
       ELSE /\ immune' = res.immune
            /\ out' = IF res.count # 0 THEN Reply("immune_removed", caller, tgt.id, res.count)
                      ELSE Reply("no_record", caller, tgt.id, res.count)
    /\ UNCHANGED <<today, resetDue, tg_username, users, daily_stats, daily_selection, h, calls>>

immune_list(ctype, caller, chat_tok) ==
    /\ CanStart
    /\ nev' = nev + 1
    /\ out' = IF ~_only_private(ctype) THEN NoOut
              ELSE IF ~_is_owner(caller) THEN Reply("no_autorizado", caller, NoId, 0)
              ELSE IF chat_tok = NoChat THEN Reply("usage", caller, NoId, 0)
              ELSE Reply("immune_list", caller, NoId, Cardinality(list_immunes(immune, chat_tok)))
    /\ UNCHANGED <<today, resetDue, tg_username, users, daily_stats, daily_selection,
                   immune, h, calls>>

\* ------------------------------------------------------------ specification
Next ==
    \/ Tick
    \/ QuietWeek
    \/ do_daily_reset
    \/ \E u \in Users, n \in UNames : Rename(u, n)
    \/ \E c \in Chats : \E u \in Members(c) : any_group_msg(c, u)
    \/ \E c \in Chats : \E s \in Members(c) : down(c, s)
    \/ down_mark
    \/ \E c \in Chats : \E s \in Members(c), upd \in Targets(c), a \in Amounts :
          regalar(c, s, upd, a)
    \/ regalar_check
    \/ regalar_mark
    \/ \E c \in Chats : \E upd \in Targets(c), e \in {0, 1} : randomdown(c, upd, e)
    \/ randomdown_mark
    \/ \E w \in ImmCallers, upd \in ImmTargets, k \in ChatTokens :
          immune_add(w.ctype, w.id, upd, k)
    \/ \E w \in ImmCallers, upd \in ImmTargets, k \in ChatTokens :
          immune_remove(w.ctype, w.id, upd, k)
    \/ \E w \in ImmCallers, k \in ChatTokens : immune_list(w.ctype, w.id, k)
    \/ \E c \in Chats : check_cmd(c)

Spec == Init /\ [][Next]_vars

\* The event loop resumes a handler when the reply it awaits has been sent:
\* a handler that can go on does go on.
FairSpec == Spec /\ WF_vars(regalar_check) /\ WF_vars(regalar_mark)

\* ------------------------------------------------------------ when the reset job runs
\* run_daily (line 651) asks the job queue for do_daily_reset at
\* RESET_UTC_TIME, the time of day at which today_key() changes.  A run of
\* the program goes one of two ways: "at_date_change", the job is the first
\* thing to run after every change of date, no step of a handler in between;
\* "later", the job runs whenever the event loop gets to it, as in Spec.
JobRuns == {"at_date_change", "later"}

InitMidnight ==
    /\ today = 0
    /\ resetDue = FALSE
    /\ tg_username = (1 :> "alice") @@ (2 :> "bruno") @@ (3 :> NULL)
    /\ users = <<>>
    /\ daily_stats = <<>>
    /\ daily_selection = {}
    /\ immune = {}
    /\ h = Idle
    /\ out = NoOut
    /\ nev = 0
    /\ calls \in [{"daily_reset"} -> JobRuns]

\* a step other than the reset taken while the reset is due
ResetLate == resetDue /\ resetDue'

NextMidnight == Next /\ (calls["daily_reset"] = "at_date_change" => ~ResetLate)

SpecMidnight == InitMidnight /\ [][NextMidnight]_vars

\* ------------------------------------------------------------ adjust_balance under concurrency
\* Calls of adjust_balance on one row of users, and the reset job, all under
\* way at once.  Handlers and jobs are coroutines of one event loop, which
\* runs a coroutine from one await to the next; adjust_balance and
\* do_daily_reset are plain functions without an await, so each call is one
\* step, taken in any order.
Calls == {1, 2}
Deltas == {-5, -10, -70}          \* regalar passes -amount
Spent == {0, 10, 15}              \* what the giver gave the day before
AdjRow == <<2, 1>>                \* the row (chat_id, user_id) the calls adjust

InitAdjust ==
    /\ today = 1
    /\ resetDue = TRUE
    /\ tg_username = (1 :> "alice") @@ (2 :> "bruno") @@ (3 :> NULL)
    /\ \E g \in Spent :
          /\ users = (AdjRow :> [username |-> "alice", last_seen |-> 0,
                                 balance |-> DAILY_START_BALANCE - g])
                     @@ (<<2, 2>> :> [username |-> "bruno", last_seen |-> 0,
                                      balance |-> DAILY_START_BALANCE])
          /\ daily_stats = IF g = 0 THEN <<>>
                           ELSE (<<2, 1, 0>> :> [given |-> g, received |-> 0])
                                @@ (<<2, 2, 0>> :> [given |-> 0, received |-> g])
    /\ daily_selection = {}
    /\ immune = {}
    /\ h = Idle
    /\ out = NoOut
    /\ nev = 0
    /\ calls \in [Calls -> [pc : {"pending"}, delta : Deltas, ok : {FALSE}, bal : {0}]]

\* one call of adjust_balance(chat_id, user_id, delta), from SELECT to return
adjust_call(t) ==
    /\ t \in DOMAIN calls
    /\ calls[t].pc = "pending"
    /\ LET adj == adjust_balance(users, AdjRow[1], AdjRow[2], calls[t].delta) IN
       /\ users' = adj.users
       /\ calls' = [calls EXCEPT ![t] = [pc |-> "done", delta |-> @.delta,
                                         ok |-> adj.ok, bal |-> adj.bal]]
    /\ UNCHANGED <<today, resetDue, tg_username, daily_stats, daily_selection,
                   immune, h, out, nev>>

NextAdjust ==
    \/ \E t \in Calls : adjust_call(t)
    \/ do_daily_reset

SpecAdjust == InitAdjust /\ [][NextAdjust]_vars

\* ------------------------------------------------------------ gifts under concurrency
\* Two /regalar handlers to one recipient in one chat, interleaved at their
\* awaits (reply_text): the application built in main() takes one update at a
\* time, so this is the program as it would run with concurrent updates, the
\* setting in which calls of one handler overlap.  Each call is cut where
\* regalar awaits a reply: from its start to the "Listo" reply, from the
\* threshold test to the announcement, and the mark that follows it.  Every
\* call is a reply to a message of the recipient with a positive amount.
GiftChat == 1
GiftDest == 2
GiftGivers == {1, 3}
GiftAmounts == {11, 21, 60}
\* the immune table: empty; the recipient added by reply (id and username);
\* the recipient added by mention (username alone); every user of the chat
GiftImmune == {{},
               {<<GiftChat, GiftDest, "bruno">>},
               {<<GiftChat, NoId, "bruno">>},
               {<<GiftChat, 1, "alice">>, <<GiftChat, GiftDest, "bruno">>,
                <<GiftChat, 3, NULL>>}}

InitGifts ==
    /\ today = 0
    /\ resetDue = FALSE
    /\ tg_username = (1 :> "alice") @@ (2 :> "bruno") @@ (3 :> NULL)
    /\ users = [k \in {GiftChat} \X Users |->
                   [username |-> tg_username[k[2]], last_seen |-> 0,
                    balance |-> DAILY_START_BALANCE]]
    /\ daily_stats = <<>>
    /\ daily_selection = {}
    /\ immune \in GiftImmune
    /\ h = Idle
    /\ out = NoOut
    /\ nev = 0
    /\ calls \in [Calls -> [pc : {"regalar"}, chat : {GiftChat}, dest : {GiftDest},
                            dest_uname : {""}, amount : GiftAmounts, day : {0},
                            who : GiftGivers]]

\* regalar up to its first await after the transfer (lines 357-399)
regalar_call(t) ==
    /\ t \in DOMAIN calls
    /\ calls[t].pc = "regalar"
    /\ LET c == calls[t].chat
           s == calls[t].who
           amount == calls[t].amount
           upd == [reply |-> ReplyTo(calls[t].dest), mention |-> NULL, idtok |-> NoId]
           U1 == seen_user(users, c, s, tg_username[s], today)
       IN \E target \in resolve_target_from_update(U1, c, upd, today) :
          LET adj == adjust_balance(target.users, c, s, 0 - amount)
              day == today_key
          IN IF ~adj.ok
             THEN /\ users' = adj.users
                  /\ out' = Reply("insufficient", c, s,
                                  IF <<c, s>> \in DOMAIN adj.users
                                  THEN adj.users[<<c, s>>].balance ELSE 0)
                  /\ calls' = [calls EXCEPT ![t].pc = "done"]
                  /\ UNCHANGED daily_stats
             ELSE /\ users' = adj.users
                  /\ daily_stats' =
                         add_given_received(
                             ensure_stats_row(ensure_stats_row(daily_stats, c, s, day),
                                              c, target.id, day),
                             c, s, target.id, amount, day)
                  /\ out' = Reply("regalado", c, target.id, adj.bal)
                  /\ calls' = [calls EXCEPT ![t] =
                                  [pc |-> "regalar_check", chat |-> c, dest |-> target.id,
                                   dest_uname |-> target.uname, amount |-> amount,
                                   day |-> day, who |-> s]]
    /\ UNCHANGED <<today, resetDue, tg_username, daily_selection, immune, h, nev>>

\* regalar from the threshold test to the replies that follow it (401-438, 441)
regalar_check_call(t) ==
    /\ t \in DOMAIN calls
    /\ calls[t].pc = "regalar_check"
    /\ LET g == calls[t]
           c == g.chat
           total_rec == get_received_today(daily_stats, c, g.dest, g.day)
           candidates == {cand \in get_recent_users(users, immune, c, today) :
                             cand[1] # g.dest}
       IN IF ~threshold_reached(total_rec)
          THEN /\ calls' = [calls EXCEPT ![t].pc = "done"]
               /\ UNCHANGED <<daily_stats, out>>
          ELSE IF ~is_user_immune(immune, c, g.dest, OrEmpty(g.dest_uname))
          THEN /\ out' = Reply("mogolico", c, g.dest, total_rec)
               /\ calls' = [calls EXCEPT ![t].pc = "regalar_mark", ![t].who = g.dest]
               /\ UNCHANGED daily_stats
          ELSE IF candidates = {}
          THEN /\ out' = Reply("no_bounce", c, g.dest, total_rec)
               /\ calls' = [calls EXCEPT ![t].pc = "done"]
               /\ UNCHANGED daily_stats
          ELSE \E alt \in candidates :
               LET S1 == bounce(ensure_stats_row(daily_stats, c, alt[1], g.day),
                                c, g.dest, alt[1], g.amount, g.day)
                   alt_total == get_received_today(S1, c, alt[1], g.day)
               IN /\ daily_stats' = S1
                  /\ IF threshold_reached(alt_total)
                     THEN /\ out' = Reply("bounce_mogolico", c, alt[1], alt_total)
                          /\ calls' = [calls EXCEPT ![t].pc = "regalar_mark",
                                                    ![t].who = alt[1]]
                     ELSE /\ out' = Reply("bounce", c, alt[1], alt_total)
                          /\ calls' = [calls EXCEPT ![t].pc = "done"]
    /\ UNCHANGED <<today, resetDue, tg_username, users, daily_selection, immune, h, nev>>

\* regalar after the announcement: mark_selection_today (lines 439, 445)
regalar_mark_call(t) ==
    /\ t \in DOMAIN calls
    /\ calls[t].pc = "regalar_mark"
    /\ daily_selection' =
           mark_selection_today(daily_selection, calls[t].chat, calls[t].who, calls[t].day)
    /\ calls' = [calls EXCEPT ![t].pc = "done"]
    /\ UNCHANGED <<today, resetDue, tg_username, users, daily_stats, immune, h, out, nev>>

NextGifts ==
    \/ \E t \in Calls : regalar_call(t)
    \/ \E t \in Calls : regalar_check_call(t)
    \/ \E t \in Calls : regalar_mark_call(t)
    \/ Tick
    \/ do_daily_reset

SpecGifts == InitGifts /\ [][NextGifts]_vars

\* The same calls taken in turn, as the application built in main() takes
\* its updates: a call starts only when no other call is between its start
\* and its end.  The clock and the reset job still run at the awaits.
InTurn ==
    \A t \in DOMAIN calls :
        (calls[t].pc = "regalar" /\ calls'[t].pc # "regalar")
            => \A t2 \in DOMAIN calls \ {t} : calls[t2].pc \in {"regalar", "done"}

NextGiftsInTurn == NextGifts /\ InTurn

SpecGiftsInTurn == InitGifts /\ [][NextGiftsInTurn]_vars

\* ------------------------------------------------------------ the list of the day
\* check_cmd applied to the databases a day of gifts leaves behind.  The
\* database of InitHighlights is built with the program's own operations: in
\* chat 1 user 3 gave z to user 1 the day before and, today, x to user 1 and
\* y to user 2; in chat 2 user 1 gave y to user 2 today; every recipient who
\* reached the threshold was recorded for the day, and so was the user a down
\* picked today in chat 1, if any.  The reset ran at midnight.
HlGifts == {0, 11, 21, 22, 30}        \* amounts given; 0: no gift
HlGift(S, c, giver, recipient, a, day) ==
    IF a = 0 THEN S ELSE add_given_received(S, c, giver, recipient, a, day)
HlMark(Sel, S, c, u, day) ==
    IF threshold_reached(get_received_today(S, c, u, day))
    THEN mark_selection_today(Sel, c, u, day) ELSE Sel
HlUsers(spent1, spent2) ==
    [k \in {<<1, 1>>, <<1, 2>>, <<1, 3>>, <<2, 1>>, <<2, 2>>} |->
        [username |-> tg_username[k[2]], last_seen |-> 1,
         balance |-> IF k = <<1, 3>> THEN DAILY_START_BALANCE - spent1
                     ELSE IF k = <<2, 1>> THEN DAILY_START_BALANCE - spent2
                     ELSE DAILY_START_BALANCE]]

InitHighlights ==
    /\ today = 1
    /\ resetDue = FALSE
    /\ tg_username = (1 :> "alice") @@ (2 :> "bruno") @@ (3 :> NULL)
    /\ \E x \in HlGifts, y \in HlGifts, z \in HlGifts, pick \in Users \cup {NoId} :
          LET S == HlGift(HlGift(HlGift(HlGift(<<>>, 1, 3, 1, z, 0), 1, 3, 1, x, 1),
                                 1, 3, 2, y, 1), 2, 1, 2, y, 1)
              Sel1 == HlMark(HlMark(HlMark(HlMark({}, S, 1, 1, 0), S, 1, 1, 1),
                                    S, 1, 2, 1), S, 2, 2, 1)
          IN /\ users = HlUsers(x + y, y)
             /\ daily_stats = S
             /\ daily_selection = IF pick = NoId THEN Sel1
                                  ELSE mark_selection_today(Sel1, 1, pick, 1)
    /\ immune = {}
    /\ h = Idle
    /\ out = NoOut
    /\ nev = 0
    /\ calls = <<>>

NextHighlights == \E c \in Chats : check_cmd(c)

SpecHighlights == InitHighlights /\ [][NextHighlights]_vars

\* ------------------------------------------------------------ properties
\* counters and balances as the claims read them
GivenOf(S, c, u, d) == IF <<c, u, d>> \in DOMAIN S THEN S[<<c, u, d>>].given ELSE 0
ReceivedOf(S, c, u, d) == IF <<c, u, d>> \in DOMAIN S THEN S[<<c, u, d>>].received ELSE 0
StatKeys == DOMAIN daily_stats \cup DOMAIN daily_stats'
\* the balance a user has when an update arrives: a user never seen gets
\* DAILY_START_BALANCE with the observation that opens the handler
PreBal(c, u) == IF <<c, u>> \in DOMAIN users THEN users[<<c, u>>].balance
                ELSE DAILY_START_BALANCE
\* the step takes a new update / is the accepted gift of regalar / is a gift
\* refused for lack of funds
UpdateStep == nev' = nev + 1 /\ h = Idle /\ today' = today /\ tg_username' = tg_username
GiftAccepted == UpdateStep /\ h'.pc = "regalar_check"
GiftRefused == UpdateStep /\ out'.kind = "insufficient"
\* the step is the suspended handler going on: regalar at its threshold
\* test, or a handler recording the user it announced
CheckStep == h.pc = "regalar_check" /\ h' # h
MarkStep(pc) == h.pc = pc /\ h' # h
CountersUnchanged ==
    \A k \in StatKeys : /\ GivenOf(daily_stats', k[1], k[2], k[3])
                           = GivenOf(daily_stats, k[1], k[2], k[3])
                        /\ ReceivedOf(daily_stats', k[1], k[2], k[3])
                           = ReceivedOf(daily_stats, k[1], k[2], k[3])
BalancesUnchanged ==
    \A k \in DOMAIN users' : users'[k].balance = PreBal(k[1], k[2])

\* C1: every stored balance is >= 0 in every reachable state, and a step in
\* which adjust refuses a debit leaves the giver's balance as it was.
BalanceNonNegative == \A k \in DOMAIN users : users[k].balance >= 0
RefusedDebitKeepsBalance ==
    GiftRefused =>
        /\ <<out'.chat, out'.who>> \in DOMAIN users'
        /\ users'[<<out'.chat, out'.who>>].balance = PreBal(out'.chat, out'.who)
        /\ out'.n = PreBal(out'.chat, out'.who)
C1_BalanceNeverNegative == []BalanceNonNegative /\ [][RefusedDebitKeepsBalance]_vars

\* C1 witness: a debit was refused to a user who had spent part of the balance,
\* and the balance is still the one the refusal reports
C1_Witness ==
    /\ out.kind = "insufficient"
    /\ out.n > 0 /\ out.n < DAILY_START_BALANCE
    /\ users[<<out.chat, out.who>>].balance = out.n

\* C2: an accepted gift of a from A to B takes exactly a from A's balance and
\* adds exactly a to A's given and to B's received of the day, and changes no
\* other counter or balance; a step changes a given or received counter either
\* for both parties of one gift or (in a bounce) for no giver at all, and a
\* refused gift changes no counter and no balance.
GiftEffect ==
    LET c == h'.chat  A == h'.who  B == h'.dest  a == h'.amount  d == h'.day IN
    /\ a > 0 /\ A # B /\ d = today
    /\ users'[<<c, A>>].balance = PreBal(c, A) - a
    /\ \A k \in DOMAIN users' : k # <<c, A>> => users'[k].balance = PreBal(k[1], k[2])
    /\ \A k \in StatKeys :
          /\ GivenOf(daily_stats', k[1], k[2], k[3])
                = GivenOf(daily_stats, k[1], k[2], k[3])
                  + (IF k = <<c, A, d>> THEN a ELSE 0)
          /\ ReceivedOf(daily_stats', k[1], k[2], k[3])
                = ReceivedOf(daily_stats, k[1], k[2], k[3])
                  + (IF k = <<c, B, d>> THEN a ELSE 0)
GiftAllOrNothing ==
    /\ GiftAccepted => GiftEffect
    /\ (UpdateStep /\ ~GiftAccepted) => CountersUnchanged /\ BalancesUnchanged
    /\ (\E k \in StatKeys : GivenOf(daily_stats', k[1], k[2], k[3])
                              # GivenOf(daily_stats, k[1], k[2], k[3]))
          => GiftAccepted
C2_GiftExactEffect == [][GiftAllOrNothing]_vars

\* C2 witness: a gift has just been accepted; giver and recipient hold the
\* amount in their counters of the day
C2_Witness ==
    /\ h.pc = "regalar_check"
    /\ GivenOf(daily_stats, h.chat, h.who, h.day) = h.amount
    /\ ReceivedOf(daily_stats, h.chat, h.dest, h.day) = h.amount
    /\ users[<<h.chat, h.who>>].balance = DAILY_START_BALANCE - h.amount

\* C3: a gift larger than the giver's balance is never accepted, and the step
\* that refuses it leaves the giver's balance, every counter and the selection
\* records as they were, with no handler left to add one later.
GiftOverBalanceRefused ==
    /\ GiftAccepted => h'.amount <= PreBal(h'.chat, h'.who)
    /\ GiftRefused =>
          /\ users'[<<out'.chat, out'.who>>].balance = PreBal(out'.chat, out'.who)
          /\ CountersUnchanged
          /\ daily_selection' = daily_selection
          /\ h' = Idle
C3_InsufficientFundsNoChange == [][GiftOverBalanceRefused]_vars

\* C3 witness: the first gift tried in a run was refused: the giver keeps the
\* whole starting balance and no counter or selection exists
C3_Witness ==
    /\ out.kind = "insufficient" /\ out.n = DAILY_START_BALANCE
    /\ users[<<out.chat, out.who>>].balance = DAILY_START_BALANCE
    /\ \A k \in DOMAIN daily_stats : daily_stats[k] = [given |-> 0, received |-> 0]
    /\ daily_selection = {}

\* C4: the step of the daily reset job leaves every user of every chat with
\* balance DAILY_START_BALANCE, whatever it was, and changes nothing else:
\* no row appears or goes, names and last-seen dates, counters and selection
\* records stay.
ResetStep == resetDue /\ ~resetDue'
ResetEffect ==
    ResetStep =>
        /\ DOMAIN users' = DOMAIN users
        /\ \A k \in DOMAIN users :
              users'[k] = [users[k] EXCEPT !.balance = DAILY_START_BALANCE]
        /\ daily_stats' = daily_stats
        /\ daily_selection' = daily_selection
        /\ immune' = immune
C4_DailyResetEffect == [][ResetEffect]_vars

\* C4 witness: the job has run today, and a user of chat 2 who gave the day
\* before has the starting balance again and still the counter of that day
C4_Witness ==
    /\ today = 1 /\ ~resetDue
    /\ \E k \in DOMAIN daily_stats :
          /\ k[1] = 2 /\ k[3] = 0 /\ daily_stats[k].given > 0
          /\ users[<<k[1], k[2]>>].balance = DAILY_START_BALANCE

\* immunity as the claims state it: an entry of the chat with the user's id,
\* or one whose username is the user's up to the case of the letters
CaseVariants(n) == IF n \in {"alice", "Alice"} THEN {"alice", "Alice"} ELSE {n}
ImmuneMatch(c, uid, uname) ==
    \E e \in immune :
        /\ e[1] = c
        /\ \/ uid # NoId /\ e[2] = uid
           \/ e[3] # NULL /\ uname \in CaseVariants(e[3])
\* a user of the chat's users table, with the username stored there
RowImmune(U, c, u) == ImmuneMatch(c, u, U[<<c, u>>].username)
\* seen less than RECENT_DAYS_WINDOW dates ago: whatever the times of day,
\* the last observation is then not older than RECENT_DAYS_WINDOW days
RowRecent(U, c, u) == today - U[<<c, u>>].last_seen < RECENT_DAYS_WINDOW

\* C5: the user down picks is, at the command, a user of the chat who is not
\* immune and was seen within the window; the only record down then adds is
\* that user's, still not immune; and a down that finds the pool empty leaves
\* no handler and no record behind.
DownSafe ==
    /\ (UpdateStep /\ h'.pc = "down_mark") =>
          /\ <<h'.chat, h'.who>> \in DOMAIN users'
          /\ ~RowImmune(users', h'.chat, h'.who)
          /\ RowRecent(users', h'.chat, h'.who)
          /\ daily_selection' = daily_selection
    /\ MarkStep("down_mark") =>
          /\ daily_selection' \subseteq daily_selection \cup {<<h.chat, today, h.who>>}
          /\ ~RowImmune(users, h.chat, h.who)
    /\ (UpdateStep /\ out'.kind = "no_active") =>
          /\ h' = Idle
          /\ daily_selection' = daily_selection
          /\ \A k \in DOMAIN users' :
                k[1] = out'.chat =>
                    RowImmune(users', k[1], k[2]) \/ ~RowRecent(users', k[1], k[2])
RandomdownSafe ==
    MarkStep("randomdown_mark") =>
        /\ ~RowImmune(users, h.chat, h.who)
        /\ RowRecent(users, h.chat, h.who)
C6_RandomdownSkipsImmuneAndStale == [][RandomdownSafe]_vars

\* C7: is_user_immune answers exactly as ImmuneMatch, for every chat, id and
\* username; a user of the chat who matches is never the one down picks, and
\* when a gift has brought such a user to the threshold the handler takes the
\* bounce branch and does not go on to record the user.
ImmuneExact ==
    \A c \in Chats, u \in Users \cup {NoId}, n \in UNames \cup {""} :
        is_user_immune(immune, c, u, n) <=> ImmuneMatch(c, u, n)
ImmuneEffect ==
    /\ (UpdateStep /\ h'.pc = "down_mark") => ~RowImmune(users', h'.chat, h'.who)
    /\ (/\ CheckStep
        /\ ReceivedOf(daily_stats, h.chat, h.dest, h.day) >= ALERT_THRESHOLD
        /\ RowImmune(users, h.chat, h.dest))
          => /\ out'.kind \in {"bounce", "bounce_mogolico", "no_bounce"}
             /\ ~(h'.pc = "regalar_mark" /\ h'.who = h.dest)
    /\ (/\ CheckStep
        /\ ReceivedOf(daily_stats, h.chat, h.dest, h.day) >= ALERT_THRESHOLD
        /\ ~RowImmune(users, h.chat, h.dest))
          => h'.pc = "regalar_mark" /\ h'.who = h.dest /\ out'.kind = "mogolico"
C7_ImmunityByIdOrName == []ImmuneExact /\ [][ImmuneEffect]_vars

\* C7 witness: a gift was bounced off a recipient who is immune only through
\* an entry that spells the username in another case
C7_Witness ==
    /\ h.pc = "regalar_mark" /\ h.who # h.dest
    /\ out.kind = "bounce_mogolico"
    /\ \A e \in immune : e[2] = NoId /\ e[3] # users[<<h.chat, h.dest>>].username
    /\ RowImmune(users, h.chat, h.dest)

\* C8: a bounce of a from a recipient with received r to the substitute leaves
\* the recipient with r - min(a, r), which is >= 0, gives the substitute exactly
\* a more, both on the day of the gift, and changes no other counter; the sum
\* of the two grows by a - min(a, r) >= 0.
Min(a, b) == IF a <= b THEN a ELSE b
BounceStep == CheckStep /\ out'.kind \in {"bounce", "bounce_mogolico"}
BounceEffect ==
    BounceStep =>
        LET c == h.chat  a == h.amount  d == h.day  alt == out'.who
            r == ReceivedOf(daily_stats, c, h.dest, d)
            ra == ReceivedOf(daily_stats, c, alt, d)
        IN /\ alt # h.dest
           /\ ReceivedOf(daily_stats', c, h.dest, d) = r - Min(a, r)
           /\ ReceivedOf(daily_stats', c, h.dest, d) >= 0
           /\ ReceivedOf(daily_stats', c, alt, d) = ra + a
           /\ ReceivedOf(daily_stats', c, h.dest, d) + ReceivedOf(daily_stats', c, alt, d)
                 = r + ra + (a - Min(a, r))
           /\ a - Min(a, r) >= 0
           /\ \A k \in StatKeys :
                 /\ GivenOf(daily_stats', k[1], k[2], k[3])
                       = GivenOf(daily_stats, k[1], k[2], k[3])
                 /\ k \notin {<<c, h.dest, d>>, <<c, alt, d>>} =>
                       ReceivedOf(daily_stats', k[1], k[2], k[3])
                          = ReceivedOf(daily_stats, k[1], k[2], k[3])
           /\ users' = users
Eligible(U, c, u, dest) ==
    /\ <<c, u>> \in DOMAIN U /\ u # dest
    /\ ~RowImmune(U, c, u) /\ RowRecent(U, c, u)
BounceSubstitute ==
    /\ (/\ CheckStep
        /\ ReceivedOf(daily_stats, h.chat, h.dest, h.day) >= ALERT_THRESHOLD
        /\ RowImmune(users, h.chat, h.dest)
        /\ \E u \in Users : Eligible(users, h.chat, u, h.dest))
          => BounceStep
    /\ BounceStep =>
          /\ Eligible(users, h.chat, out'.who, h.dest)
          /\ daily_selection' = daily_selection
          /\ IF ReceivedOf(daily_stats', h.chat, out'.who, h.day) >= ALERT_THRESHOLD
             THEN h' = [h EXCEPT !.pc = "regalar_mark", !.who = out'.who]
             ELSE h' = Idle
    /\ (MarkStep("regalar_mark") /\ RowImmune(users, h.chat, h.dest)) =>
          /\ h.who # h.dest
          /\ daily_selection' \subseteq daily_selection \cup {<<h.chat, h.day, h.who>>}
          /\ <<h.chat, h.day, h.who>> \in daily_selection'
Refused == {w \in ImmCallers : w.ctype # "private" \/ w.id # OWNER_ID}
RefusedImmuneStep ==
    \E w \in Refused, k \in ChatTokens :
        \/ \E upd \in ImmTargets : immune_add(w.ctype, w.id, upd, k)
        \/ \E upd \in ImmTargets : immune_remove(w.ctype, w.id, upd, k)
        \/ immune_list(w.ctype, w.id, k)
C10_RefusedImmuneCommandNoChange ==
    [][RefusedImmuneStep =>
          /\ immune' = immune /\ users' = users
          /\ daily_stats' = daily_stats /\ daily_selection' = daily_selection]_vars

\* C10 witness: somebody who is not the owner was refused while a chat has an
\* immunity entry, which is still there
C10_Witness ==
    /\ out.kind = "no_autorizado" /\ out.chat # OWNER_ID
    /\ immune # {}

\* ------------------------------------------------------------ chats
\* what the tables hold for one chat
UsersOf(U, c) == [k \in {x \in DOMAIN U : x[1] = c} |-> U[k]]
StatsOf(S, c) == [k \in {x \in DOMAIN S : x[1] = c} |-> S[k]]
SelectionOf(Sel, c) == {e \in Sel : e[1] = c}
ImmuneOf(I, c) == {e \in I : e[1] = c}
LedgerChanged(c) ==
    \/ users' # users /\ UsersOf(users', c) # UsersOf(users, c)
    \/ daily_stats' # daily_stats /\ StatsOf(daily_stats', c) # StatsOf(daily_stats, c)
    \/ SelectionOf(daily_selection', c) # SelectionOf(daily_selection, c)
ImmunityChanged(c) ==
    /\ immune' # immune
    /\ \/ ImmuneOf(immune', c) # ImmuneOf(immune, c)
       \/ \E u \in Users \cup {NoId}, n \in UNames \cup {""} :
             is_user_immune(immune', c, u, n) # is_user_immune(immune, c, u, n)
\* the step is a step of observe, down, regalar or randomdown in chat c
\* (down, regalar and randomdown answer in the chat they run in)
LedgerStepIn(c) ==
    \/ \E u \in Members(c) : any_group_msg(c, u)
    \/ out'.chat = c /\ \E s \in Members(c) : down(c, s)
    \/ out'.chat = c /\ \E s \in Members(c), upd \in Targets(c), a \in Amounts :
                          regalar(c, s, upd, a)
    \/ out'.chat = c /\ \E upd \in Targets(c), e \in {0, 1} : randomdown(c, upd, e)
    \/ h.chat = c /\ (down_mark \/ regalar_check \/ regalar_mark \/ randomdown_mark)
\* the step is immune_add or immune_remove given chat id c
ImmuneStepFor(c) ==
    \E w \in ImmCallers, upd \in ImmTargets :
        immune_add(w.ctype, w.id, upd, c) \/ immune_remove(w.ctype, w.id, upd, c)

\* C11: a step of observe, down, regalar (bounce included) or randomdown in
\* chat X leaves users, counters and selection records of every other chat as
\* they were; immune_add and immune_remove given chat X leave the entries of
\* every other chat, and who is immune there, as they were; a step that writes
\* the ledger of two chats is the daily reset.
ChatPartition ==
    /\ \A Y \in Chats : LedgerChanged(Y) => \A X \in Chats \ {Y} : ~LedgerStepIn(X)
    /\ \A Y \in Chats : ImmunityChanged(Y) => \A X \in ChatTokens \ {Y} : ~ImmuneStepFor(X)
    /\ (\E X, Y \in Chats : X # Y /\ LedgerChanged(X) /\ LedgerChanged(Y))
          => (resetDue /\ ~resetDue') \/ today' # today
C11_ChatPartition == [][ChatPartition]_vars

\* C11 witness: a user known in both chats has given in chat 1 and holds the
\* whole starting balance in chat 2, where no counter exists
C11_Witness ==
    \E u \in Users :
        /\ <<1, u>> \in DOMAIN users /\ <<2, u>> \in DOMAIN users
        /\ users[<<1, u>>].balance < DAILY_START_BALANCE
        /\ users[<<2, u>>].balance = DAILY_START_BALANCE
        /\ \A k \in DOMAIN daily_stats : k[1] = 1

\* ------------------------------------------------------------ concurrency claims
\* the balance the adjusted row had before any call or reset: the starting
\* balance less what the user gave the day before
StartBal == DAILY_START_BALANCE - GivenOf(daily_stats, AdjRow[1], AdjRow[2], 0)
CallDone(t) == t \in DOMAIN calls /\ calls[t].pc = "done"
CallPending(t) == t \in DOMAIN calls /\ calls[t].pc = "pending"
CallStep(t) == CallPending(t) /\ calls'[t].pc = "done"

\* C12: two calls of adjust_balance on one row lose no update: once both have
\* succeeded (and no reset has run) the balance is b + d1 + d2; and the write
\* of a call is made on the balance of the state the call reads, whatever the
\* other call has written before: new = old + delta when it succeeds, new = old
\* when it refuses.
NoLostUpdate ==
    (resetDue /\ \A t \in Calls : CallDone(t) /\ calls[t].ok)
        => users[AdjRow].balance = StartBal + calls[1].delta + calls[2].delta
AdjustReadsLatest ==
    \A t \in Calls :
        CallStep(t) =>
            /\ calls'[t].ok <=> users[AdjRow].balance + calls[t].delta >= 0
            /\ users'[AdjRow].balance =
                  IF calls'[t].ok THEN users[AdjRow].balance + calls[t].delta
                  ELSE users[AdjRow].balance
            /\ calls'[t].bal = users'[AdjRow].balance
C12_AdjustNoLostUpdate == []NoLostUpdate /\ [][AdjustReadsLatest]_vars

\* C12 witness: two calls with different deltas succeeded on a balance that
\* was not the starting one, and both debits are in the balance
C12_Witness ==
    /\ resetDue /\ \A t \in Calls : CallDone(t) /\ calls[t].ok
    /\ calls[1].delta # calls[2].delta
    /\ StartBal < DAILY_START_BALANCE
    /\ users[AdjRow].balance = StartBal + calls[1].delta + calls[2].delta


\* C13: the reset and a call of adjust_balance on a user are serialized: when
\* the reset and one call (the other still to run) have both happened, the
\* balance is DAILY_START_BALANCE (call, then reset) or DAILY_START_BALANCE + d
\* (reset, then call), never the balance before the reset plus d; the step of
\* the reset writes DAILY_START_BALANCE over whatever a call has written, and a
\* call after the reset starts from DAILY_START_BALANCE.
OneCallAndReset(t) ==
    ~resetDue /\ CallDone(t) /\ \A t2 \in Calls \ {t} : CallPending(t2)
ResetAdjustSerialized ==
    \A t \in Calls :
        OneCallAndReset(t) =>
            /\ users[AdjRow].balance
                  \in {DAILY_START_BALANCE, DAILY_START_BALANCE + calls[t].delta}
            /\ StartBal # DAILY_START_BALANCE
                  => users[AdjRow].balance # StartBal + calls[t].delta
ResetOverwrites ==
    /\ (resetDue /\ ~resetDue') => users'[AdjRow].balance = DAILY_START_BALANCE
    /\ \A t \in Calls :
          (CallStep(t) /\ ~resetDue /\ \A t2 \in Calls \ {t} : CallPending(t2))
              => /\ calls'[t].ok
                 /\ users'[AdjRow].balance = DAILY_START_BALANCE + calls[t].delta
C13_ResetAdjustSerialized == []ResetAdjustSerialized /\ [][ResetOverwrites]_vars

\* C13 witness: the reset ran before the call, on a balance that was not the
\* starting one: the balance is DAILY_START_BALANCE + d
C13_Witness ==
    /\ OneCallAndReset(1)
    /\ StartBal < DAILY_START_BALANCE
    /\ users[AdjRow].balance = DAILY_START_BALANCE + calls[1].delta


\* C14: observing a user who has no row creates the row with balance
\* DAILY_START_BALANCE; observing a user who has one changes the username and
\* last_seen of that row and nothing else.  Every handler that observes (down
\* its caller, regalar its caller and the replied-to user, randomdown the
\* replied-to user) leaves the balance of every existing row as it was, the
\* debit of an accepted gift apart, so no observation restores a balance.
ObserveEffect(c, u) ==
    /\ DOMAIN users' = DOMAIN users \cup {<<c, u>>}
    /\ users'[<<c, u>>] =
          IF <<c, u>> \in DOMAIN users
          THEN [users[<<c, u>>] EXCEPT !.username = tg_username[u], !.last_seen = today]
          ELSE [username |-> tg_username[u], last_seen |-> today,
                balance |-> DAILY_START_BALANCE]
    /\ \A k \in DOMAIN users : k # <<c, u>> => users'[k] = users[k]
    /\ UNCHANGED <<daily_stats, daily_selection, immune>>
ObserveKeepsBalance ==
    /\ \A c \in Chats : \A u \in Members(c) : any_group_msg(c, u) => ObserveEffect(c, u)
    /\ DOMAIN users \subseteq DOMAIN users'
    /\ \A k \in DOMAIN users' \ DOMAIN users :
          ~(GiftAccepted /\ k = <<h'.chat, h'.who>>)
              => users'[k].balance = DAILY_START_BALANCE
    /\ UpdateStep =>
          \A k \in DOMAIN users :
              ~(GiftAccepted /\ k = <<h'.chat, h'.who>>)
                  => users'[k].balance = users[k].balance
C14_ObserveKeepsBalance == [][ObserveKeepsBalance]_vars

\* C14 witness: a giver who spent part of the balance was observed again (by a
\* gift command that was then refused) and holds what was left, the starting
\* balance less what the giver gave today
C14_Witness ==
    /\ out.kind = "insufficient"
    /\ GivenOf(daily_stats, out.chat, out.who, today) > 0
    /\ users[<<out.chat, out.who>>].balance
          = DAILY_START_BALANCE - GivenOf(daily_stats, out.chat, out.who, today)
    /\ users[<<out.chat, out.who>>].last_seen = today


\* C15: an accepted gift leaves the recipient's balance as it was; the step
\* that tests the threshold and bounces changes no row of users, so neither
\* the immune recipient's balance nor the substitute's; a step in which some
\* balance rises is the daily reset; and every stored balance is at most
\* DAILY_START_BALANCE in every reachable state.
BalanceCeiling == \A k \in DOMAIN users : users[k].balance <= DAILY_START_BALANCE
OnlyGiverPays ==
    /\ GiftAccepted =>
          /\ <<h'.chat, h'.dest>> \in DOMAIN users'
          /\ users'[<<h'.chat, h'.dest>>].balance = PreBal(h'.chat, h'.dest)
    /\ CheckStep => users' = users
    /\ (\E k \in DOMAIN users : users'[k].balance > users[k].balance)
          => \/ resetDue /\ ~resetDue'
             \/ today' = today + RECENT_DAYS_WINDOW
C15_OnlyGiverPays == []BalanceCeiling /\ [][OnlyGiverPays]_vars

\* C15 witness: after a bounce the immune recipient holds the starting
\* balance, and the substitute holds the gift in the received counter while
\* the substitute's balance is the starting one less what the substitute gave
C15_Witness ==
    /\ h.pc = "regalar_mark" /\ out.kind = "bounce_mogolico"
    /\ users[<<h.chat, h.dest>>].balance = DAILY_START_BALANCE
    /\ ReceivedOf(daily_stats, h.chat, h.who, h.day) = h.amount
    /\ users[<<h.chat, h.who>>].balance
          = DAILY_START_BALANCE - GivenOf(daily_stats, h.chat, h.who, h.day)


\* C16: when the gift just accepted has brought a recipient who is not immune
\* to ALERT_THRESHOLD or more for the day of the gift, the handler announces
\* the recipient and goes on to record the recipient for that day, whether or
\* not the record exists already, and it does get there; when the total is
\* below ALERT_THRESHOLD the handler ends and the gift adds no record; the step
\* that accepts the gift adds none either.
ThresholdMet ==
    /\ h.pc = "regalar_check"
    /\ ReceivedOf(daily_stats, h.chat, h.dest, h.day) >= ALERT_THRESHOLD
    /\ ~ImmuneMatch(h.chat, h.dest, h.dest_uname)
ChosenOnThreshold ==
    /\ GiftAccepted => daily_selection' = daily_selection
    /\ (CheckStep /\ ThresholdMet) =>
          /\ out' = Reply("mogolico", h.chat, h.dest,
                          ReceivedOf(daily_stats, h.chat, h.dest, h.day))
          /\ h' = [h EXCEPT !.pc = "regalar_mark", !.who = h.dest]
          /\ daily_selection' = daily_selection
    /\ (MarkStep("regalar_mark") /\ out.kind = "mogolico") =>
          /\ daily_selection' = daily_selection \cup {<<h.chat, h.day, out.who>>}
          /\ out.who = h.dest
          /\ h' = Idle
    /\ (CheckStep /\ ReceivedOf(daily_stats, h.chat, h.dest, h.day) < ALERT_THRESHOLD) =>
          /\ h' = Idle
          /\ daily_selection' = daily_selection
Recorded == out.kind = "mogolico" /\ h = Idle /\ \E e \in daily_selection :
                                                  e[1] = out.chat /\ e[3] = out.who
Days == {today - 1, today}
HighlightsExact(c, d, res) ==
    LET over == {u \in Users : ReceivedOf(daily_stats, c, u, d) > ALERT_THRESHOLD}
        n == Len(res.rec)
    IN /\ {res.rec[i][1] : i \in 1..n} = over
       /\ n = Cardinality(over)
       /\ \A i \in 1..n : res.rec[i][2] = ReceivedOf(daily_stats, c, res.rec[i][1], d)
       /\ \A i, j \in 1..n : i < j => res.rec[i][2] >= res.rec[j][2]
       /\ res.sel = {u \in Users : <<c, d, u>> \in daily_selection}
HighlightsRight ==
    \A c \in Chats, d \in Days :
        \A res \in list_today_highlights(users, daily_stats, daily_selection, c, d) :
            HighlightsExact(c, d, res)
CheckReports ==
    (UpdateStep /\ out'.kind \in {"lista", "sin_destacados"}) =>
        /\ HighlightsExact(out'.chat, today, [rec |-> out'.rec, sel |-> out'.sel])
        /\ out'.kind = "sin_destacados" <=> (out'.rec = <<>> /\ out'.sel = {})
        /\ UNCHANGED <<users, daily_stats, daily_selection, immune>>
C17_HighlightsExact == []HighlightsRight /\ [][CheckReports]_vars

\* C17 witness: the list sent has two users above the threshold, the larger
\* total first, and three chosen users: the two, each marked once, and the
\* one a down picked
C17_Witness ==
    /\ out.kind = "lista"
    /\ Len(out.rec) = 2 /\ out.rec[1][2] > out.rec[2][2]
    /\ Cardinality(out.sel) = 3
    /\ \E u \in out.sel : ReceivedOf(daily_stats, out.chat, u, today) = 0


\* the target of the update resolves to nobody, in the users table the
\* handler looks it up in
Unresolved(U, c, upd) ==
    \A t \in resolve_target_from_update(U, c, upd, today) : ~t.found
\* the step is a regalar / randomdown whose target resolves to nobody (with
\* such a target regalar does the same whatever the amount; the call is
\* written with no amount; every regalar leaves its caller seen today)
UnresolvedGift(c, s) ==
    /\ <<c, s>> \in DOMAIN users' /\ users'[<<c, s>>].last_seen = today
    /\ \E upd \in Targets(c) :
        /\ Unresolved(seen_user(users, c, s, tg_username[s], today), c, upd)
        /\ regalar(c, s, upd, NoAmount)
UnresolvedRandomdown(c) ==
    \E upd \in Targets(c) :
        /\ Unresolved(users, c, upd)
        /\ \E e \in {0, 1} : randomdown(c, upd, e)

\* C18 as stated: a regalar or randomdown whose target cannot be resolved
\* leaves users, daily_stats and daily_selection as they were.
UnresolvedMutatesNothing ==
    \A c \in Chats :
        (out'.kind = "usage" /\ out'.chat = c
         /\ (UnresolvedRandomdown(c) \/ \E s \in Members(c) : UnresolvedGift(c, s)))
            => UNCHANGED <<users, daily_stats, daily_selection>>
C18_UnresolvedTargetNoMutation == [][UnresolvedMutatesNothing]_vars

\* C18 amended: a randomdown whose target cannot be resolved changes no table;
\* a regalar whose target cannot be resolved observes its caller (the caller's
\* row is created with DAILY_START_BALANCE, or gets the caller's username and
\* today as last_seen) and changes nothing else: no other row, no balance, no
\* counter, no selection record, no immunity entry; both answer with the usage
\* hint and end.
UnresolvedOnlyObservesCaller ==
    \A c \in Chats :
        (out'.kind = "usage" /\ out'.chat = c) =>
            /\ UnresolvedRandomdown(c) =>
                  /\ UNCHANGED <<users, daily_stats, daily_selection, immune>>
                  /\ h' = Idle
            /\ \A s \in Members(c) :
                  UnresolvedGift(c, s) => ObserveEffect(c, s) /\ h' = Idle
C18_UnresolvedOnlyObservesCaller == [][UnresolvedOnlyObservesCaller]_vars

\* C18 witness: the first command of a run was a regalar that named nobody
\* known: the caller's row is the only row, no counter exists
C18_Witness ==
    /\ out.kind = "usage" /\ out.chat \in Chats /\ nev = 1
    /\ Cardinality(DOMAIN users) = 1
    /\ \A k \in DOMAIN users : k[1] = out.chat /\ users[k].balance = DAILY_START_BALANCE
    /\ daily_stats = <<>> /\ daily_selection = {}


\* C19: no step lowers the given counter of any user and day; a step lowers a
\* received counter only if it is a bounce, and then the counter is the one of
\* the immune recipient for the day of the gift, which stays >= 0; no row of
\* daily_stats goes away, and no counter is ever negative.
CountersNonNegative ==
    \A k \in DOMAIN daily_stats : daily_stats[k].given >= 0 /\ daily_stats[k].received >= 0
CountersGrow ==
    /\ DOMAIN daily_stats \subseteq DOMAIN daily_stats'
    /\ \A k \in DOMAIN daily_stats :
          /\ daily_stats'[k].given >= daily_stats[k].given
          /\ daily_stats'[k].received < daily_stats[k].received =>
                /\ BounceStep
                /\ k = <<h.chat, h.dest, h.day>>
                /\ is_user_immune(immune, h.chat, h.dest, h.dest_uname)
                /\ daily_stats'[k].received >= 0
C19_CountersMonotone == []CountersNonNegative /\ [][CountersGrow]_vars

\* C19 witness: a bounce has lowered the immune recipient's received counter to
\* 0, while the giver's given counter and the substitute's received counter
\* hold the gift
C19_Witness ==
    /\ out.kind \in {"bounce", "bounce_mogolico"}
    /\ \E k \in DOMAIN daily_stats :
          /\ k[1] = out.chat /\ k[3] = today
          /\ RowImmune(users, k[1], k[2])
          /\ daily_stats[k].received = 0
    /\ ReceivedOf(daily_stats, out.chat, out.who, today) = out.n
    /\ \E k \in DOMAIN daily_stats : k[1] = out.chat /\ daily_stats[k].given = out.n


\* C20: the step in which the date changes clears no row of daily_stats or
\* daily_selection (and no user), and in the state it leaves received_today is
\* 0 for every user and list_today_highlights is empty for every chat on the
\* new day; no row or record is ever dated after today.  The counters of a day
\* change only in the step that accepts a gift on that day, or in the later
\* steps of a handler that recorded its gift under that day; a selection
\* record of a day is added only by such a handler, or by a down / randomdown
\* that marks on that day.  So a regalar in flight over midnight writes its
\* counters and its record under the day of its transfer, which is one day.
NothingAhead ==
    /\ \A k \in DOMAIN daily_stats : k[3] <= today
    /\ \A e \in daily_selection : e[2] <= today
DayChangeKeepsRecords ==
    today' # today =>
        /\ daily_stats' = daily_stats
        /\ daily_selection' = daily_selection
        /\ DOMAIN users' = DOMAIN users
        /\ \A c \in Chats :
              /\ \A u \in Users : get_received_today(daily_stats', c, u, today') = 0
              /\ list_today_highlights(users', daily_stats', daily_selection', c, today')
                    = {[rec |-> <<>>, sel |-> {}]}
OneDayPerGift ==
    /\ GiftAccepted => h'.day = today
    /\ \A k \in StatKeys :
          (\/ GivenOf(daily_stats', k[1], k[2], k[3]) # GivenOf(daily_stats, k[1], k[2], k[3])
           \/ ReceivedOf(daily_stats', k[1], k[2], k[3])
                 # ReceivedOf(daily_stats, k[1], k[2], k[3]))
              => \/ GiftAccepted /\ k[3] = h'.day /\ k[1] = h'.chat
                 \/ CheckStep /\ k[3] = h.day /\ k[1] = h.chat
    /\ \A e \in daily_selection' \ daily_selection :
          \/ MarkStep("regalar_mark") /\ e = <<h.chat, h.day, h.who>>
          \/ (MarkStep("down_mark") \/ MarkStep("randomdown_mark"))
                /\ e = <<h.chat, today, h.who>>
    /\ (h.pc \in {"regalar_check", "regalar_mark"} /\ h'.pc # "idle")
          => h'.day = h.day /\ h'.chat = h.chat
C20_DayChange ==
    []NothingAhead /\ [][DayChangeKeepsRecords]_vars /\ [][OneDayPerGift]_vars

\* C20 witness: a gift recorded yesterday has brought its recipient to the
\* threshold; today its handler is still to add the selection record, and
\* nothing is dated today
C20_Witness ==
    /\ h.pc = "regalar_mark" /\ h.day < today
    /\ ReceivedOf(daily_stats, h.chat, h.dest, h.day) >= ALERT_THRESHOLD
    /\ \A k \in DOMAIN daily_stats : k[3] = h.day
    /\ daily_selection = {}


\* ------------------------------------------------------------ conservation
RECURSIVE SumOver(_, _, _, _, _)
SumOver(S, field, c, d, us) ==
    IF us = {} THEN 0
    ELSE LET u == CHOOSE x \in us : TRUE
         IN (IF <<c, u, d>> \in DOMAIN S THEN S[<<c, u, d>>][field] ELSE 0)
            + SumOver(S, field, c, d, us \ {u})
StatUsers == {k[2] : k \in DOMAIN daily_stats}
StatDays == {k[3] : k \in DOMAIN daily_stats}
\* the gift handlers between their transfer and their threshold test
GiftsToCheck ==
    (IF h.pc = "regalar_check" THEN {h} ELSE {})
    \cup {calls[t] : t \in {x \in DOMAIN calls : calls[x].pc = "regalar_check"}}

\* C21: for every chat and every day the given counters of all users add up
\* to the same as their received counters; and every gift handler that has
\* still to make its threshold test finds its recipient's received counter of
\* the gift's day at or above its amount, so a bounce subtracts the whole
\* amount and never stops at the floor of 0.  Checked with two handlers to
\* one recipient interleaved at their replies.
GivenEqualsReceived ==
    \A c \in Chats : \A d \in StatDays :
        SumOver(daily_stats, "given", c, d, StatUsers)
            = SumOver(daily_stats, "received", c, d, StatUsers)
FloorNeverUsed ==
    \A g \in GiftsToCheck : ReceivedOf(daily_stats, g.chat, g.dest, g.day) >= g.amount
C21_GivenEqualsReceived == GivenEqualsReceived /\ FloorNeverUsed

\* C21 witness: both handlers gave to the immune recipient before either made
\* its test; one has bounced its amount to a third user and the recipient
\* keeps the amount of the other, which is still to test
C21_Witness ==
    /\ \E t \in DOMAIN calls : \E t2 \in DOMAIN calls :
          /\ calls[t].pc \in {"done", "regalar_mark"} /\ calls[t2].pc = "regalar_check"
          /\ calls[t].day = calls[t2].day
          /\ ReceivedOf(daily_stats, GiftChat, GiftDest, calls[t2].day) = calls[t2].amount
          /\ \E u \in Users \ {GiftDest} :
                ReceivedOf(daily_stats, GiftChat, u, calls[t2].day) = calls[t].amount
    /\ out.kind \in {"bounce", "bounce_mogolico"}



\* ------------------------------------------------------------ the daily allowance
\* what a user has left and what it has given today make the starting balance
AllowanceKept(U, S, k) ==
    U[k].balance + GivenOf(S, k[1], k[2], today) = DAILY_START_BALANCE
OnTime == calls["daily_reset"] = "at_date_change"
InAllowance ==
    (OnTime /\ ~resetDue) =>
        /\ \A k \in DOMAIN users : AllowanceKept(users, daily_stats, k)
        /\ \A k \in DOMAIN daily_stats : daily_stats[k].given <= DAILY_START_BALANCE
GiftBeforeResetBreaks ==
    ResetStep =>
        \A k \in DOMAIN users :
            /\ AllowanceKept(users', daily_stats', k)
                  <=> GivenOf(daily_stats, k[1], k[2], today) = 0
            /\ users'[k].balance + GivenOf(daily_stats', k[1], k[2], today)
                  = DAILY_START_BALANCE + GivenOf(daily_stats, k[1], k[2], today)

\* C22: in the runs in which the reset job is the first thing to run after
\* every change of date, every user has balance + given(today) =
\* DAILY_START_BALANCE in every state outside that instant (no reset due), and
\* no given counter of any day is above DAILY_START_BALANCE; in every run, the
\* reset leaves balance + given(today) = DAILY_START_BALANCE + what the user
\* gave between the change of date and the reset, so after it the equality
\* holds for exactly the users who gave nothing in between.
C22_DailyAllowance == []InAllowance /\ [][GiftBeforeResetBreaks]_vars

\* C22 witness: the job runs later; a user gave after midnight and before the
\* reset; the reset has run, and the user has the whole balance and a gift
\* already made today
C22_Witness ==
    /\ ~OnTime /\ ~resetDue /\ today > 0
    /\ \E k \in DOMAIN users :
          /\ users[k].balance = DAILY_START_BALANCE
          /\ GivenOf(daily_stats, k[1], k[2], today) > 0


\* ------------------------------------------------------------ immune recipients
\* an entry of the chat names the user by id or by the username stored in
\* its row of users, whatever the case of the letters (a reply stores the
\* username Telegram gives); in SpecGifts the immune table never changes, so
\* immune now is immune all day
ImmuneNow(c, u) == <<c, u>> \in DOMAIN users /\ RowImmune(users, c, u)
\* somebody else of the chat's pool can take a bounce.  The rows and the
\* immune table of SpecGifts are those of the start and last_seen only grows,
\* so a substitute that exists now existed at every earlier gift.
SubstituteExists(c, u) ==
    {cand \in get_recent_users(users, immune, c, today) : cand[1] # u} # {}
\* no gift handler to u is between its transfer and its end
GiftsCompleted(c, u) ==
    /\ h.pc \in {"regalar_check", "regalar_mark"} => (h.chat # c \/ h.dest # u)
    /\ \A t \in DOMAIN calls :
          calls[t].pc \in {"regalar_check", "regalar_mark"}
              => (calls[t].chat # c \/ calls[t].dest # u)
Listed(c, u) ==
    \E res \in list_today_highlights(users, daily_stats, daily_selection, c, today) :
        \/ \E i \in DOMAIN res.rec : res.rec[i][1] = u
        \/ u \in res.sel

\* C23: for a user immune in a chat all day for whom a substitute exists at
\* every gift: whenever no gift handler to the user is under way, the user's
\* received counter of every day is below ALERT_THRESHOLD, the user is in
\* neither list of list_today_highlights, and daily_selection holds no record
\* of the user.
C23_ImmuneNeverChosen ==
    \A c \in Chats : \A u \in Users :
        (ImmuneNow(c, u) /\ SubstituteExists(c, u) /\ GiftsCompleted(c, u)) =>
            /\ \A k \in DOMAIN daily_stats :
                  (k[1] = c /\ k[2] = u) => daily_stats[k].received < ALERT_THRESHOLD
            /\ ~Listed(c, u)
            /\ \A e \in daily_selection : ~(e[1] = c /\ e[3] = u)

\* C23 witness: the recipient is immune by a username entry; both gifts to
\* it are over, each reached the threshold and bounced, and the recipient's
\* counter of the day is back at 0
C23_Witness ==
    /\ immune = {<<GiftChat, NoId, "bruno">>}
    /\ \A t \in DOMAIN calls : calls[t].pc = "done" /\ calls[t].amount >= ALERT_THRESHOLD
    /\ \E d \in StatDays :
          /\ <<GiftChat, GiftDest, d>> \in DOMAIN daily_stats
          /\ daily_stats[<<GiftChat, GiftDest, d>>].received = 0
          /\ SumOver(daily_stats, "given", GiftChat, d, StatUsers)
                = calls[1].amount + calls[2].amount


\* ------------------------------------------------------------ grant and revoke
\* the users an immunity command names: the replied-to user, or whoever holds
\* the mentioned username
ImmTargetUsers(upd) ==
    IF upd.reply # NoReply THEN {upd.reply.id}
    ELSE {u \in Users : /\ tg_username[u] # NULL /\ upd.mention # NULL
                        /\ Lower(tg_username[u]) = Lower(upd.mention)}
AddGrants ==
    out'.kind = "immune_added" =>
        \A upd \in ImmTargets, c \in Chats :
            immune_add("private", OWNER_ID, upd, c) =>
                \A u \in ImmTargetUsers(upd) :
                    is_user_immune(immune', c, u, tg_username[u])
RemoveRevokes ==
    out'.kind \in {"immune_removed", "no_record"} =>
        \A upd \in ImmTargets, c \in Chats :
            immune_remove("private", OWNER_ID, upd, c) =>
                /\ \A u \in ImmTargetUsers(upd) :
                      ~is_user_immune(immune', c, u, tg_username[u])
                /\ out'.n = Cardinality(immune \ immune')
                /\ out'.kind = "immune_removed" <=> immune' # immune

\* C24: an accepted immune_add for a chat, by reply or by mention, leaves the
\* user it names immune in that chat; an accepted immune_remove for a chat,
\* by reply or by mention, leaves the user it names not immune in that chat,
\* whichever way the entries were added, and reports the number of entries it
\* deleted, non-zero exactly when it deleted one.
C24_ImmunityRoundTrip == [][AddGrants /\ RemoveRevokes]_vars

====
